---- MODULE Spec2Model ----
(***************************************************************************)
(* A model of caffe2/python/snapshot.py: Job, SnapshotManager,             *)
(* MultiNodeSnapshotManager, JobRunner and epoch_limiter.                   *)
(*                                                                         *)
(* The job is built by builder actions (pc = "build"), a JobRunner is       *)
(* constructed, and its __call__ is followed one executor call at a time.  *)
(* Every executor call may fail.  After a run has ended a further runner    *)
(* may be constructed, in the same process (workspaces and manager objects *)
(* survive) or in a new one (only the checkpoint store survives).          *)
(*                                                                         *)
(* Optional values (Python None) are sequences: None is << >> and a        *)
(* present value x is <<x>>.  Variables and definitions whose names begin  *)
(* with g_ are history variables: nothing the program does reads them.     *)
(***************************************************************************)
EXTENDS Integers, Sequences, FiniteSets, TLC

\* ------------------------------------------------------------------ bounds
\* largest num_epochs handed to epoch_limiter
MaxN == 3
\* most epoch_limiter calls while building one job
MaxLimiters == 2
\* the epoch loop of the model is cut off at this epoch number
MaxEpoch == 5
\* largest resume_from_epoch a JobRunner is constructed with
MaxResume == 3
\* most JobRunner runs in one behaviour
MaxRuns == 2
\* most direct client calls of MultiNodeSnapshotManager.init in one behaviour
MaxDirect == 2

\* ------------------------------------------------------------------ values
None == << >>
Some(x) == <<x>>

\* Node.current() when no Node scope is open
DefaultNode == "local"
\* the node scopes job-building code opens
JobNodes == {"local", "a"}
Nodes == {"local", "a", "b"}
\* the node lists a client passes to MultiNodeSnapshotManager.init directly
NodeLists == {<< >>, <<"local">>, <<"local", "a">>, <<"a", "local">>, <<"local", "b">>}

\* blob names are pairs <<kind, index>>
BlobNames == <<"blob_names", 0>>
WBlob == <<"w", 0>>
TmpBlob == <<"tmp", 0>>
CounterBlob(i) == <<"counter", i>>
FinishedBlob(i) == <<"finished", i>>

KindRank(k) ==
    CASE k = "blob_names" -> 0
      [] k = "counter" -> 1
      [] k = "finished" -> 2
      [] k = "tmp" -> 3
      [] OTHER -> 4
BlobRank(b) == KindRank(b[1]) * 100 + b[2]

\* the members of a set of blob names as a list, in the workspace's fixed order
RECURSIVE SortedNames(_)
SortedNames(S) ==
    IF S = {} THEN << >>
    ELSE LET m == CHOOSE x \in S : \A y \in S : BlobRank(x) <= BlobRank(y)
         IN <<m>> \o SortedNames(S \ {m})

Range(s) == {s[i] : i \in 1..Len(s)}
Put(f, k, v) == [x \in DOMAIN f \cup {k} |-> IF x = k THEN v ELSE f[x]]
EmptyMap == [x \in {} |-> 0]

VARIABLES
    \* Job
    init_group, epoch_group, exit_group, stop_signals,
    \* JobRunner
    pc, resume_from_epoch, snapshot, epoch, stop_values, pending,
    \* SnapshotManager, MultiNodeSnapshotManager
    mgr, node_managers,
    \* the execution engine: per-node workspaces, resolved task outputs, checkpoint store
    ws, outvals, store,
    \* history
    g_trace, g_runs, g_hist, g_ref, g_call, g_first_nodes, g_names, g_executed

jobVars == <<init_group, epoch_group, exit_group, stop_signals>>
runnerVars == <<pc, resume_from_epoch, snapshot, epoch, stop_values, pending>>
mgrVars == <<mgr, node_managers>>
engineVars == <<ws, outvals, store>>
histVars == <<g_trace, g_runs, g_hist, g_ref, g_call, g_first_nodes, g_names, g_executed>>
vars == <<jobVars, runnerVars, mgrVars, engineVars, histVars>>

\* ------------------------------------------------------- checkpoint keys
DigitChars == <<"0", "1", "2", "3", "4", "5", "6", "7", "8", "9">>

RECURSIVE Decimal(_)
Decimal(n) ==
    IF n < 10 THEN <<DigitChars[n + 1]>>
    ELSE Decimal(n \div 10) \o <<DigitChars[(n % 10) + 1]>>

RECURSIVE ZeroPad(_, _)
ZeroPad(s, width) == IF Len(s) >= width THEN s ELSE ZeroPad(<<"0">> \o s, width)

\* (variant: '%s.%d', no padding)
dbnameUnpadded(db, e) == db \o <<".">> \o Decimal(e)

\* '%s.%06d' % (self._db, epoch), as a list of characters after the prefix
dbname(db, e) == db \o <<".">> \o ZeroPad(Decimal(e), 6)

\* the db of the single SnapshotManager, and os.path.join(self._db_prefix, node)
DbPrefix == <<"run">>
NodeDb(node) == DbPrefix \o <<"/", node>>

\* ------------------------------------------------------------------- Job
\* TaskGroup.used_nodes(): the nodes of the group's tasks, each once, in order
RECURSIVE used_nodes(_)
used_nodes(group) ==
    IF group = << >> THEN << >>
    ELSE LET front == used_nodes(SubSeq(group, 1, Len(group) - 1))
             n == group[Len(group)].node
         IN IF n \in Range(front) THEN front ELSE Append(front, n)

NumLimiters == Cardinality({i \in 1..Len(init_group) : init_group[i].type = "counter_init"})
HasTrainer == \E i \in 1..Len(init_group) : init_group[i].type = "param_init"

\* Job.add_stop_signal(output) for an output that is a TaskOutput
add_stop_signal(signals, output) == Append(signals, output)

\* (variant: init_count=num_epochs)
LimiterInitCountWhole(num_epochs) == num_epochs

\* the init_count epoch_limiter gives to CreateCounter
LimiterInitCount(num_epochs) == num_epochs - 1

\* epoch_limiter(num_epochs), called with Node scope n open
EpochLimiter(num_epochs, n) ==
    /\ pc = "build"
    /\ NumLimiters < MaxLimiters
    \* the jobs of a client that has called MultiNodeSnapshotManager.init
    \* itself are explored without epoch limiters
    /\ g_call.count = 0
    /\ LET i == NumLimiters + 1
           output == [blob |-> FinishedBlob(i), node |-> n]
       IN /\ init_group' = Append(init_group,
                 [type |-> "counter_init", node |-> n, blob |-> CounterBlob(i),
                  init_count |-> LimiterInitCount(num_epochs), g_num_epochs |-> num_epochs])
          /\ epoch_group' = Append(epoch_group,
                 [type |-> "countdown", node |-> n, blob |-> CounterBlob(i),
                  out |-> FinishedBlob(i)])
          /\ stop_signals' = add_stop_signal(stop_signals, output)
    /\ UNCHANGED <<exit_group, runnerVars, mgrVars, engineVars, histVars>>

\* build_hogwild_trainer of the Job docstring, called with Node scope n open:
\* a parameter-initialising task, a training task and a model-saving task
BuildTrainer(n) ==
    /\ pc = "build"
    /\ init_group = << >>
    /\ init_group' = Append(init_group, [type |-> "param_init", node |-> n, blob |-> WBlob])
    /\ epoch_group' = Append(epoch_group, [type |-> "train", node |-> n, blob |-> WBlob])
    /\ exit_group' = Append(exit_group, [type |-> "save_model", node |-> n, blob |-> WBlob])
    /\ UNCHANGED <<stop_signals, runnerVars, mgrVars, engineVars, histVars>>

\* ------------------------------------------------------ SnapshotManager
Failure == [ok |-> FALSE]

\* SnapshotManager.__init__(db, db_type)
NewManager(db) == [db |-> db, names_output |-> None]

\* TaskOutput.fetch(): the value of an output, which exists once its task has run
fetch(o) == IF o.resolved THEN [ok |-> TRUE, value |-> o.value] ELSE Failure

\* (variant: the names are listed from the live values on a resume too)
SM_initRescans(m, nodes, retrieve_from_epoch, cur) ==
    IF nodes # None /\ Len(nodes[1]) # 1 THEN Failure
    ELSE [ok |-> TRUE,
          mgr |-> [m EXCEPT !.names_output =
                      Some([resolved |-> FALSE, node |-> cur, value |-> << >>])],
          task |-> [type |-> "get_blob_list", node |-> cur, nodes |-> nodes, g_owner |-> m.db,
                    key |-> None]]

\* SnapshotManager.init(nodes, retrieve_from_epoch), called with Node scope cur
\* open: the task built and the manager afterwards
SM_init(m, nodes, retrieve_from_epoch, cur) ==
    IF nodes # None /\ Len(nodes[1]) # 1 THEN Failure
    ELSE [ok |-> TRUE,
          mgr |-> [m EXCEPT !.names_output =
                      Some([resolved |-> FALSE, node |-> cur, value |-> << >>])],
          task |-> [type |-> "get_blob_list", node |-> cur, nodes |-> nodes, g_owner |-> m.db,
                    key |-> IF retrieve_from_epoch = None THEN None
                            ELSE Some(dbname(m.db, retrieve_from_epoch[1]))]]

\* (variant: no assert, an unset names output reads as an empty list)
blob_listUnchecked(m) ==
    IF m.names_output = None THEN [ok |-> TRUE, value |-> << >>]
    ELSE fetch(m.names_output[1])

\* SnapshotManager.blob_list()
blob_list(m) ==
    IF m.names_output = None THEN Failure
    ELSE fetch(m.names_output[1])

\* (variant: the checkpoint addressed is that of the epoch after)
SM_loadNextEpoch(m, e, cur) ==
    LET names == blob_list(m)
    IN IF ~names.ok THEN Failure
       ELSE [ok |-> TRUE, mgr |-> m,
             task |-> [type |-> "load", node |-> cur, names |-> names.value,
                       key |-> dbname(m.db, e + 1)]]

\* SnapshotManager.load(epoch), called with Node scope cur open
SM_load(m, e, cur) ==
    LET names == blob_list(m)
    IN IF ~names.ok THEN Failure
       ELSE [ok |-> TRUE, mgr |-> m,
             task |-> [type |-> "load", node |-> cur, names |-> names.value,
                       key |-> dbname(m.db, e)]]

\* (variant: the names saved are those of the values alive when save is called)
SM_saveLive(m, e, cur) ==
    LET names == blob_list(m)
    IN IF ~names.ok THEN Failure
       ELSE [ok |-> TRUE, mgr |-> m,
             task |-> [type |-> "save", node |-> cur,
                       names |-> SortedNames(DOMAIN ws[cur] \cup {BlobNames}),
                       key |-> dbname(m.db, e)]]

\* SnapshotManager.save(epoch), called with Node scope cur open
SM_save(m, e, cur) ==
    LET names == blob_list(m)
    IN IF ~names.ok THEN Failure
       ELSE [ok |-> TRUE, mgr |-> m,
             task |-> [type |-> "save", node |-> cur, names |-> names.value,
                       key |-> dbname(m.db, e)]]

\* --------------------------------------------- MultiNodeSnapshotManager
\* [node for node, _ in self._node_managers]
RecordedNodes(nms) == [i \in 1..Len(nms) |-> nms[i].node]

\* MultiNodeSnapshotManager._task_group: results[i] is what func returned for
\* the i-th (node, manager) pair, called inside Node(node)
task_group(nms, results) ==
    IF nms = None THEN Failure
    ELSE IF \E i \in 1..Len(results) : ~results[i].ok THEN Failure
    ELSE [ok |-> TRUE,
          managers |-> [i \in 1..Len(results) |->
                          [node |-> nms[1][i].node, manager |-> results[i].mgr]],
          group |-> [i \in 1..Len(results) |-> results[i].task]]

\* (variant: no check of an earlier call, the managers are built anew)
MN_initRebuilds(nms, nodes, retrieve_from_epoch) ==
    IF nodes = << >> THEN [ok |-> FALSE, nms |-> Some(<< >>)]
    ELSE LET created == [i \in 1..Len(nodes) |->
                            [node |-> nodes[i], manager |-> NewManager(NodeDb(nodes[i]))]]
             node == nodes[Len(nodes)]
             tg == task_group(Some(created),
                       [i \in 1..Len(created) |->
                           SM_init(created[i].manager, Some(<<node>>),
                                   retrieve_from_epoch, created[i].node)])
         IN [ok |-> TRUE, nms |-> Some(tg.managers), result |-> Some(tg.group)]

\* MultiNodeSnapshotManager.init(nodes, retrieve_from_epoch): nms is
\* self._node_managers before the call; the result holds it after the call
\* and what the call returned (None, or the task group)
MN_init(nms, nodes, retrieve_from_epoch) ==
    IF nms # None
    THEN IF RecordedNodes(nms[1]) = nodes
         THEN [ok |-> TRUE, nms |-> nms, result |-> None]
         ELSE [ok |-> FALSE, nms |-> nms]
    ELSE IF nodes = << >>
    \* the loop variable node is unbound where the task group is built
    THEN [ok |-> FALSE, nms |-> Some(<< >>)]
    ELSE LET created == [i \in 1..Len(nodes) |->
                            [node |-> nodes[i], manager |-> NewManager(NodeDb(nodes[i]))]]
             \* nodes=[node]: node is the loop variable, left at the last node
             node == nodes[Len(nodes)]
             tg == task_group(Some(created),
                       [i \in 1..Len(created) |->
                           SM_init(created[i].manager, Some(<<node>>),
                                   retrieve_from_epoch, created[i].node)])
         IN IF tg.ok THEN [ok |-> TRUE, nms |-> Some(tg.managers), result |-> Some(tg.group)]
            ELSE [ok |-> FALSE, nms |-> Some(created)]

\* MultiNodeSnapshotManager.load(epoch)
MN_load(nms, e) ==
    IF nms = None THEN Failure
    ELSE task_group(nms, [i \in 1..Len(nms[1]) |->
                             SM_load(nms[1][i].manager, e, nms[1][i].node)])

\* MultiNodeSnapshotManager.save(epoch)
MN_save(nms, e) ==
    IF nms = None THEN Failure
    ELSE task_group(nms, [i \in 1..Len(nms[1]) |->
                             SM_save(nms[1][i].manager, e, nms[1][i].node)])

\* ------------------------------------------------------ execution engine
\* CountDown on a counter holding c: the counter afterwards and the output
CountDown(c) == [count |-> c - 1, done |-> ~(c > 0)]

\* one task run against the engine state st = [ok, ws, out, store]
ExecTask(st, t) ==
    LET w == st.ws[t.node]
        bad == [st EXCEPT !.ok = FALSE]
    IN CASE t.type = "param_init" ->
              [st EXCEPT !.ws[t.node] = Put(w, t.blob, 0)]
         [] t.type = "counter_init" ->
              [st EXCEPT !.ws[t.node] = Put(w, t.blob, t.init_count)]
         [] t.type = "train" ->
              IF t.blob \notin DOMAIN w THEN bad
              ELSE [st EXCEPT !.ws[t.node] =
                       Put(Put(w, t.blob, w[t.blob] + 1), TmpBlob, w[t.blob] + 1)]
         [] t.type = "countdown" ->
              IF t.blob \notin DOMAIN w THEN bad
              ELSE LET r == CountDown(w[t.blob])
                   IN [st EXCEPT !.ws[t.node] = Put(Put(w, t.blob, r.count), t.out, r.done),
                                 !.out = Put(st.out, [blob |-> t.out, node |-> t.node], r.done)]
         [] t.type = "save_model" ->
              IF t.blob \notin DOMAIN w THEN bad ELSE st
         [] t.type = "outputs" ->
              IF t.outputs[1] \notin DOMAIN w THEN bad
              ELSE [st EXCEPT !.out = Put(st.out,
                                          [blob |-> t.outputs[1], node |-> t.node, task |-> t.id],
                                          w[t.outputs[1]])]
         [] t.type = "get_blob_list" ->
              IF t.key = None
              THEN [st EXCEPT !.ws[t.node] =
                       Put(w, BlobNames, SortedNames(DOMAIN w \cup {BlobNames}))]
              ELSE IF t.key[1] \notin DOMAIN st.store THEN bad
              ELSE IF BlobNames \notin DOMAIN st.store[t.key[1]] THEN bad
              ELSE [st EXCEPT !.ws[t.node] = Put(w, BlobNames, st.store[t.key[1]][BlobNames])]
         [] t.type = "save" ->
              IF \E b \in Range(t.names) : b \notin DOMAIN w THEN bad
              ELSE [st EXCEPT !.store = Put(st.store, t.key, [b \in Range(t.names) |-> w[b]])]
         [] t.type = "load" ->
              IF t.key \notin DOMAIN st.store THEN bad
              ELSE IF \E b \in Range(t.names) : b \notin DOMAIN st.store[t.key] THEN bad
              ELSE [st EXCEPT !.ws[t.node] =
                       [b \in DOMAIN w \cup Range(t.names) |->
                           IF b \in Range(t.names) THEN st.store[t.key][b] ELSE w[b]]]

\* client.run(group): the tasks of the group in order, stopping at a failure
RECURSIVE RunTasks(_, _)
RunTasks(st, tasks) ==
    IF tasks = << >> \/ ~st.ok THEN st
    ELSE RunTasks(ExecTask(st, Head(tasks)), Tail(tasks))

Engine == [ok |-> TRUE, ws |-> ws, out |-> outvals, store |-> store]
run(group) == RunTasks(Engine, group)

\* ------------------------------------------------------------- JobRunner
Ev(e, n, data) == [ev |-> e, n |-> n, data |-> data]
NamesOf(group) == [i \in 1..Len(group) |-> group[i].names]

\* from_scratch = self.resume_from_epoch is None
from_scratch == resume_from_epoch = None

\* if self.snapshot:
has_snapshot == snapshot # "none"

\* (variant: a resumed run starts at the epoch it resumed from)
FirstEpochResumed == IF from_scratch THEN 1 ELSE resume_from_epoch[1]

\* (variant: epoch = 0 if from_scratch)
FirstEpochZero == IF from_scratch THEN 0 ELSE resume_from_epoch[1] + 1

\* epoch = 1 if from_scratch else self.resume_from_epoch + 1
FirstEpoch == IF from_scratch THEN 1 ELSE resume_from_epoch[1] + 1

\* (variant: init_group is run whether or not the run resumes)
AfterStartAlwaysInit(resume, kind) == "init_group"

\* where __call__ goes after its first statement
AfterStart(resume, kind) ==
    IF resume = None THEN "init_group"
    ELSE IF kind # "none" THEN "snap_init" ELSE "epoch_group"

\* JobRunner(job, snapshot_manager, resume_from_epoch), and the start of __call__
Construct(kind, resume) ==
    /\ pc = "build"
    /\ node_managers # None => kind = "multi"
    \* SnapshotManager builds its tasks outside any Node scope: it goes with a
    \* job built outside any Node scope
    /\ kind = "single" => \A i \in 1..Len(init_group) : init_group[i].node = DefaultNode
    /\ snapshot' = kind
    /\ resume_from_epoch' = resume
    /\ pc' = AfterStart(resume, kind)
    /\ epoch' = IF resume # None /\ kind = "none" THEN resume[1] + 1 ELSE 0
    /\ g_runs' = 1
    /\ UNCHANGED <<jobVars, stop_values, pending, mgrVars, engineVars,
                   g_trace, g_hist, g_ref, g_call, g_first_nodes, g_names, g_executed>>

\* (variant: the exception is caught and the call made again)
RaisesRetried ==
    /\ Len(g_trace) < 4 * MaxEpoch
    /\ pc' = pc
    /\ g_trace' = Append(g_trace, Ev("raise", epoch, << >>))
    /\ UNCHANGED <<jobVars, resume_from_epoch, snapshot, epoch, stop_values, pending,
                   mgrVars, engineVars, g_runs, g_hist, g_ref, g_call, g_first_nodes,
                   g_names, g_executed>>

\* an executor call (or the building of what it is handed) raises: the
\* exception leaves __call__, nothing of the failed group is kept
Raises ==
    /\ pc' = "failed"
    /\ g_trace' = Append(g_trace, Ev("raise", epoch, << >>))
    /\ UNCHANGED <<jobVars, resume_from_epoch, snapshot, epoch, stop_values, pending,
                   mgrVars, engineVars, g_runs, g_hist, g_ref, g_call, g_first_nodes,
                   g_names, g_executed>>

\* where __call__ goes after client.run(self.job.init_group)
AfterInitGroup == IF has_snapshot THEN "snap_init" ELSE "epoch_group"

\* client.run(self.job.init_group)
RunInitGroup ==
    /\ pc = "init_group"
    /\ \/ LET r == run(init_group)
          IN /\ r.ok
             /\ ws' = r.ws
             /\ outvals' = r.out
             /\ pc' = AfterInitGroup
             /\ epoch' = IF has_snapshot THEN epoch ELSE FirstEpoch
             /\ g_trace' = Append(g_trace, Ev("init_group", 0, << >>))
             /\ UNCHANGED <<jobVars, resume_from_epoch, snapshot, stop_values, pending,
                            mgrVars, store, g_runs, g_hist, g_ref, g_call, g_first_nodes,
                            g_names, g_executed>>
       \/ Raises

\* self.snapshot.init(nodes, retrieve_from_epoch=...) of whichever manager the
\* runner holds: both managers afterwards and what the call returned
SnapInit(nodes, retrieve_from_epoch) ==
    IF snapshot = "single"
    THEN LET r == SM_init(mgr, Some(nodes), retrieve_from_epoch, DefaultNode)
         IN IF r.ok
            THEN [ok |-> TRUE, mgr |-> r.mgr, nms |-> node_managers,
                  result |-> Some(<<r.task>>)]
            ELSE [ok |-> FALSE, mgr |-> mgr, nms |-> node_managers]
    ELSE LET r == MN_init(node_managers, nodes, retrieve_from_epoch)
         IN IF r.ok
            THEN [ok |-> TRUE, mgr |-> mgr, nms |-> r.nms, result |-> r.result]
            ELSE [ok |-> FALSE, mgr |-> mgr, nms |-> r.nms]

\* self.snapshot.save(epoch)
SnapSave(e) ==
    IF snapshot = "single"
    THEN LET r == SM_save(mgr, e, DefaultNode)
         IN IF r.ok THEN [ok |-> TRUE, group |-> <<r.task>>] ELSE Failure
    ELSE MN_save(node_managers, e)

\* self.snapshot.load(epoch)
SnapLoad(e) ==
    IF snapshot = "single"
    THEN LET r == SM_load(mgr, e, DefaultNode)
         IN IF r.ok THEN [ok |-> TRUE, group |-> <<r.task>>] ELSE Failure
    ELSE MN_load(node_managers, e)

\* the managers (named by their db) whose init built a new task in a call that
\* took the managers from (m0, nms0) to (m1, nms1)
Rebuilt(m0, nms0, m1, nms1) ==
    (IF m1 # m0 THEN {m1.db} ELSE {})
    \cup (IF nms1 # nms0 /\ nms1 # None
          THEN {nms1[1][i].manager.db : i \in 1..Len(nms1[1])} ELSE {})

\* the first call of MultiNodeSnapshotManager.init records its node list
FirstNodesAfter(nodes) ==
    IF snapshot = "multi" /\ node_managers = None THEN Some(nodes) ELSE g_first_nodes

\* self.snapshot.init(self.job.init_group.used_nodes(),
\*                    retrieve_from_epoch=self.resume_from_epoch)
SnapshotInitCall ==
    /\ pc = "snap_init"
    /\ LET nodes == used_nodes(init_group)
           r == SnapInit(nodes, resume_from_epoch)
       IN /\ mgr' = r.mgr
          /\ node_managers' = r.nms
          /\ g_first_nodes' = FirstNodesAfter(nodes)
          /\ g_executed' = g_executed \ Rebuilt(mgr, node_managers, r.mgr, r.nms)
          /\ IF r.ok
             THEN /\ pending' = r.result
                  /\ pc' = "snap_init_run"
                  /\ g_trace' = g_trace
             ELSE /\ pending' = pending
                  /\ pc' = "failed"
                  /\ g_trace' = Append(g_trace, Ev("raise", epoch, << >>))
    /\ UNCHANGED <<jobVars, resume_from_epoch, snapshot, epoch, stop_values, engineVars,
                   g_runs, g_hist, g_ref, g_call, g_names>>

\* a names output after its task has run
Resolved(o, w) == [o EXCEPT !.resolved = TRUE, !.value = w[o.node][BlobNames]]

\* the managers once the executor has run the task group that init built
ResolveSingle(m, w) ==
    IF snapshot = "single" THEN [m EXCEPT !.names_output = Some(Resolved(m.names_output[1], w))]
    ELSE m
ResolveMulti(nms, w) ==
    IF snapshot = "multi"
    THEN Some([i \in 1..Len(nms[1]) |->
                 [nms[1][i] EXCEPT !.manager.names_output =
                     Some(Resolved(nms[1][i].manager.names_output[1], w))]])
    ELSE nms

\* the name lists the runner's managers hold, resolved or not
HeldNames ==
    IF snapshot = "single" THEN <<mgr.names_output>>
    ELSE IF node_managers = None THEN << >>
    ELSE [i \in 1..Len(node_managers[1]) |-> node_managers[1][i].manager.names_output]

\* (variant: a fresh run goes back to init_group)
AfterSnapshotInitRestarts == IF from_scratch THEN "init_group" ELSE "load"

\* where __call__ goes after the snapshot init task
AfterSnapshotInit == IF from_scratch THEN "save0" ELSE "load"

\* client.run(<what self.snapshot.init returned>)
SnapshotInitRun ==
    /\ pc = "snap_init_run"
    /\ \/ /\ pending # None
          /\ LET r == run(pending[1])
             IN /\ r.ok
                /\ ws' = r.ws
                /\ mgr' = ResolveSingle(mgr, r.ws)
                /\ node_managers' = ResolveMulti(node_managers, r.ws)
                /\ g_names' = Some([i \in 1..Len(pending[1]) |->
                                      r.ws[pending[1][i].node][BlobNames]])
          /\ g_executed' = g_executed \cup {pending[1][i].g_owner : i \in 1..Len(pending[1])}
          /\ pc' = AfterSnapshotInit
          /\ pending' = None
          /\ g_trace' = Append(g_trace, Ev("snapshot_init", Len(pending[1]), << >>))
          /\ UNCHANGED <<jobVars, resume_from_epoch, snapshot, epoch, stop_values,
                         outvals, store, g_runs, g_hist, g_ref, g_call, g_first_nodes>>
       \/ \* client.run(None): what the executor does with it is not this file's;
          \* it either raises (below) or returns having run nothing
          /\ pending = None
          /\ pc' = AfterSnapshotInit
          /\ g_trace' = Append(g_trace, Ev("snapshot_init", 0, << >>))
          /\ UNCHANGED <<jobVars, resume_from_epoch, snapshot, epoch, stop_values, pending,
                         mgrVars, engineVars, g_runs, g_hist, g_ref, g_call, g_first_nodes,
                         g_names, g_executed>>
       \/ Raises

\* client.run(self.snapshot.save(0))
SaveFirst ==
    /\ pc = "save0"
    /\ \/ LET b == SnapSave(0)
          IN /\ b.ok
             /\ LET r == run(b.group)
                IN /\ r.ok
                   /\ store' = r.store
             /\ g_trace' = Append(g_trace, Ev("save", 0, NamesOf(b.group)))
             /\ pc' = "epoch_group"
             /\ epoch' = FirstEpoch
             /\ g_hist' = Put(g_hist, 0, ws)
             /\ UNCHANGED <<jobVars, resume_from_epoch, snapshot, stop_values, pending,
                            mgrVars, ws, outvals, g_runs, g_ref, g_call,
                            g_first_nodes, g_names, g_executed>>
       \/ Raises

\* client.run(self.snapshot.load(self.resume_from_epoch))
LoadSnapshot ==
    /\ pc = "load"
    /\ \/ LET b == SnapLoad(resume_from_epoch[1])
          IN /\ b.ok
             /\ LET r == run(b.group)
                IN /\ r.ok
                   /\ ws' = r.ws
             /\ g_trace' = Append(g_trace, Ev("load", resume_from_epoch[1], NamesOf(b.group)))
             /\ pc' = "epoch_group"
             /\ epoch' = FirstEpoch
             /\ UNCHANGED <<jobVars, resume_from_epoch, snapshot, stop_values, pending,
                            mgrVars, outvals, store, g_runs, g_hist, g_ref, g_call,
                            g_first_nodes, g_names, g_executed>>
       \/ Raises

\* the values the registered stop signals hold in out, in registration order
Produced(out) ==
    IF \A i \in 1..Len(stop_signals) : stop_signals[i] \in DOMAIN out
    THEN [i \in 1..Len(stop_signals) |-> out[stop_signals[i]]]
    ELSE << >>

\* client.run(self.job.epoch_group)
RunEpochGroup ==
    /\ pc = "epoch_group"
    /\ \/ LET r == run(epoch_group)
          IN /\ r.ok
             /\ ws' = r.ws
             /\ outvals' = r.out
             /\ g_hist' = Put(g_hist, epoch, r.ws)
             /\ g_trace' = Append(g_trace, Ev("epoch_group", epoch, Produced(r.out)))
             /\ pc' = "fetch"
             /\ UNCHANGED <<jobVars, resume_from_epoch, snapshot, epoch, stop_values,
                            pending, mgrVars, store, g_runs, g_ref, g_call, g_first_nodes,
                            g_names, g_executed>>
       \/ Raises

\* (variant: the signals are resolved up to the first true one)
FetchedFirstTrue(signals, out) ==
    LET vals == [i \in 1..Len(signals) |-> out[signals[i]]]
        hits == {i \in 1..Len(vals) : vals[i]}
    IN IF hits = {} THEN vals
       ELSE SubSeq(vals, 1, CHOOSE i \in hits : \A j \in hits : i <= j)

\* [o.fetch() for o in self.job.stop_signals]
Fetched(signals, out) == [i \in 1..Len(signals) |-> out[signals[i]]]

\* (variant: all(stop_signals), which is true of no signals)
all(values) == \A i \in 1..Len(values) : values[i]

\* any(stop_signals)
any(values) == \E i \in 1..Len(values) : values[i]

\* (variant: the loop is left before the save of the last epoch)
AfterFetchBreakFirst ==
    IF has_snapshot /\ ~any(Fetched(stop_signals, outvals)) THEN "save" ELSE "check"

\* where __call__ goes after resolving the stop signals
AfterFetch == IF has_snapshot THEN "save" ELSE "check"

\* stop_signals = [o.fetch() for o in self.job.stop_signals]
FetchStopSignals ==
    /\ pc = "fetch"
    /\ IF \A i \in 1..Len(stop_signals) : stop_signals[i] \in DOMAIN outvals
       THEN /\ stop_values' = Fetched(stop_signals, outvals)
            /\ g_trace' = Append(g_trace, Ev("fetch", epoch, stop_values'))
            /\ pc' = AfterFetch
       ELSE /\ stop_values' = stop_values
            /\ g_trace' = Append(g_trace, Ev("raise", epoch, << >>))
            /\ pc' = "failed"
    /\ UNCHANGED <<jobVars, resume_from_epoch, snapshot, epoch, pending, mgrVars,
                   engineVars, g_runs, g_hist, g_ref, g_call, g_first_nodes, g_names,
                   g_executed>>

\* client.run(self.snapshot.save(epoch))
SaveEpoch ==
    /\ pc = "save"
    /\ \/ LET b == SnapSave(epoch)
          IN /\ b.ok
             /\ LET r == run(b.group)
                IN /\ r.ok
                   /\ store' = r.store
             /\ g_trace' = Append(g_trace, Ev("save", epoch, NamesOf(b.group)))
             /\ pc' = "check"
             /\ UNCHANGED <<jobVars, resume_from_epoch, snapshot, epoch, stop_values,
                            pending, mgrVars, ws, outvals, g_runs, g_hist, g_ref, g_call,
                            g_first_nodes, g_names, g_executed>>
       \/ Raises

\* if any(stop_signals): break; epoch += 1
CheckStop ==
    /\ pc = "check"
    /\ IF any(stop_values)
       THEN /\ pc' = "exit_group"
            /\ epoch' = epoch
       ELSE /\ epoch < MaxEpoch
            /\ pc' = "epoch_group"
            /\ epoch' = epoch + 1
    /\ UNCHANGED <<jobVars, resume_from_epoch, snapshot, stop_values, pending, mgrVars,
                   engineVars, histVars>>

\* client.run(self.job.exit_group); return epoch
RunExitGroup ==
    /\ pc = "exit_group"
    /\ \/ LET r == run(exit_group)
          IN /\ r.ok
             /\ g_trace' = Append(g_trace, Ev("exit_group", epoch, << >>))
             /\ g_ref' = IF from_scratch /\ has_snapshot
                         THEN Some([ws |-> ws, store |-> store, ret |-> epoch,
                                    hist |-> g_hist])
                         ELSE g_ref
             /\ pc' = "done"
             /\ UNCHANGED <<jobVars, resume_from_epoch, snapshot, epoch, stop_values,
                            pending, mgrVars, engineVars, g_runs, g_hist, g_call,
                            g_first_nodes, g_names, g_executed>>
       \/ /\ Raises
          /\ g_ref' = g_ref

\* ----------------------------------------------------- further clients
EmptyWs == [n \in Nodes |-> EmptyMap]

Resumes == {None} \cup {Some(e) : e \in 0..MaxResume}

\* a further JobRunner for the same job and the same kind of manager, in the
\* same process (same = TRUE: the manager objects and the workspaces are the
\* ones of the run before) or in a new one
NewRunner(resume, same) ==
    /\ pc \in {"done", "failed"}
    /\ g_runs < MaxRuns
    /\ g_runs' = g_runs + 1
    /\ resume_from_epoch' = resume
    /\ pc' = AfterStart(resume, snapshot)
    /\ epoch' = IF resume # None /\ snapshot = "none" THEN resume[1] + 1 ELSE 0
    /\ stop_values' = << >>
    /\ pending' = None
    /\ g_trace' = << >>
    /\ g_hist' = EmptyMap
    /\ g_ref' = IF resume = None THEN None ELSE g_ref
    /\ IF same
       THEN UNCHANGED <<mgrVars, ws, outvals, g_first_nodes, g_names, g_executed>>
       ELSE /\ mgr' = NewManager(DbPrefix)
            /\ node_managers' = None
            /\ ws' = EmptyWs
            /\ outvals' = EmptyMap
            /\ g_first_nodes' = None
            /\ g_names' = None
            /\ g_executed' = {}
    /\ UNCHANGED <<jobVars, snapshot, store, g_call>>

\* a client calls MultiNodeSnapshotManager.init itself, before any job is built
DirectInit(nodes, retrieve_from_epoch) ==
    /\ pc = "build"
    /\ init_group = << >>
    /\ g_call.count < MaxDirect
    /\ LET r == MN_init(node_managers, nodes, retrieve_from_epoch)
       IN /\ node_managers' = r.nms
          /\ g_call' = [count |-> g_call.count + 1, nodes |-> nodes,
                        before |-> node_managers,
                        outcome |-> IF ~r.ok THEN "raise"
                                    ELSE IF r.result = None THEN "none" ELSE "task_group"]
          /\ g_executed' = g_executed \ Rebuilt(mgr, node_managers, mgr, r.nms)
    /\ g_first_nodes' = IF node_managers = None THEN Some(nodes) ELSE g_first_nodes
    /\ UNCHANGED <<jobVars, runnerVars, mgr, engineVars, g_trace, g_runs, g_hist, g_ref,
                   g_names>>

\* ------------------------------------------------------- specification
Init ==
    /\ init_group = << >>
    /\ epoch_group = << >>
    /\ exit_group = << >>
    /\ stop_signals = << >>
    /\ pc = "build"
    /\ resume_from_epoch = None
    /\ snapshot = "none"
    /\ epoch = 0
    /\ stop_values = << >>
    /\ pending = None
    /\ mgr = NewManager(DbPrefix)
    /\ node_managers = None
    /\ ws = EmptyWs
    /\ outvals = EmptyMap
    /\ store = EmptyMap
    /\ g_trace = << >>
    /\ g_runs = 0
    /\ g_hist = EmptyMap
    /\ g_ref = None
    /\ g_call = [count |-> 0, nodes |-> << >>, before |-> None, outcome |-> "none"]
    /\ g_first_nodes = None
    /\ g_names = None
    /\ g_executed = {}

Next ==
    \/ \E n \in JobNodes : BuildTrainer(n)
    \/ \E num_epochs \in 1..MaxN, n \in JobNodes : EpochLimiter(num_epochs, n)
    \/ \E nodes \in NodeLists, r \in {None, Some(0)} : DirectInit(nodes, r)
    \/ \E kind \in {"none", "single", "multi"}, resume \in Resumes : Construct(kind, resume)
    \/ RunInitGroup
    \/ SnapshotInitCall
    \/ SnapshotInitRun
    \/ SaveFirst
    \/ LoadSnapshot
    \/ RunEpochGroup
    \/ FetchStopSignals
    \/ SaveEpoch
    \/ CheckStop
    \/ RunExitGroup
    \/ \E resume \in Resumes, same \in BOOLEAN : NewRunner(resume, same)

Spec == Init /\ [][Next]_vars

\* ------------------------------------------------------------ properties
Running == pc # "build"
TraceIdx == 1..Len(g_trace)
IsEpoch(x) == x.ev = "epoch_group"
IsSave(x) == x.ev = "save"
IsLoad(x) == x.ev = "load"
Epochs == SelectSeq(g_trace, IsEpoch)
Saves == SelectSeq(g_trace, IsSave)
Loads == SelectSeq(g_trace, IsLoad)
LastEv == IF g_trace = << >> THEN "" ELSE g_trace[Len(g_trace)].ev

\* the job has one stop signal, registered by epoch_limiter(LimiterN)
SoleLimiter == Len(stop_signals) = 1 /\ NumLimiters = 1
LimiterTask == CHOOSE t \in Range(init_group) : t.type = "counter_init"
LimiterN == LimiterTask.g_num_epochs

\* C1: a fresh run of a job whose only stop signal is epoch_limiter(N) runs
\* epochs 1, 2, ..., N in this order and no more, and returns N: the counter
\* holds N - 1 when init_group has run, and the stop signal is true after
\* epoch N and after no earlier epoch.
C1_EpochLimiterRunsN ==
    (Running /\ from_scratch /\ SoleLimiter) =>
        /\ Len(Epochs) <= LimiterN
        /\ \A i \in 1..Len(Epochs) : Epochs[i].n = i
        /\ LastEv = "init_group" => ws[LimiterTask.node][LimiterTask.blob] = LimiterN - 1
        /\ pc \in {"save", "check"} => (any(stop_values) <=> epoch = LimiterN)
        /\ pc \in {"exit_group", "done"} => Len(Epochs) = LimiterN /\ epoch = LimiterN

C1_Witness ==
    /\ pc = "done" /\ from_scratch /\ SoleLimiter
    /\ LimiterN = MaxN /\ epoch = MaxN /\ Len(Epochs) = MaxN

\* the checkpoints of epoch e that the runner's managers address
EpochKeys(e) ==
    IF snapshot = "single" THEN {dbname(mgr.db, e)}
    ELSE IF snapshot = "multi" /\ node_managers # None
    THEN {dbname(node_managers[1][i].manager.db, e) : i \in 1..Len(node_managers[1])}
    ELSE {}

\* C2: in a fresh run with a snapshot manager the saves executed are
\* save(0), save(1), ... in this order, each once; save(0) is the third
\* executor call, after init_group and the snapshot init call and before any
\* epoch; save(k) follows epoch k and the resolution of its stop signals; and
\* when the run returns e the last save was save(e), whose checkpoint exists.
C2_FreshRunSaves ==
    (Running /\ from_scratch /\ has_snapshot) =>
        /\ \A i \in 1..Len(Saves) : Saves[i].n = i - 1
        /\ \A i \in TraceIdx :
              /\ (g_trace[i].ev = "save" /\ g_trace[i].n = 0) =>
                    /\ i = 3
                    /\ g_trace[1].ev = "init_group"
                    /\ g_trace[2].ev = "snapshot_init"
              /\ g_trace[i].ev = "epoch_group" =>
                    /\ i > 3
                    /\ g_trace[3].ev = "save" /\ g_trace[3].n = 0
              /\ (g_trace[i].ev = "save" /\ g_trace[i].n > 0) =>
                    /\ i > 2
                    /\ g_trace[i - 2].ev = "epoch_group"
                    /\ g_trace[i - 2].n = g_trace[i].n
        /\ pc = "done" =>
              /\ Len(Saves) = epoch + 1
              /\ Saves[Len(Saves)].n = epoch
              /\ EpochKeys(epoch) # {}
              /\ EpochKeys(epoch) \subseteq DOMAIN store

C2_Witness ==
    /\ pc = "done" /\ from_scratch /\ has_snapshot
    /\ epoch = MaxN /\ Len(Saves) = MaxN + 1

\* C3: a run resumed from epoch E with a snapshot manager never executes
\* init_group and never executes save(0); load(E) is executed at most once,
\* as the second executor call, right after the snapshot init call; no epoch
\* runs before it; the first epoch run and the first checkpoint saved are
\* numbered E + 1.
C3_ResumeSkipsInit ==
    (Running /\ ~from_scratch /\ has_snapshot) =>
        LET E == resume_from_epoch[1]
        IN /\ \A i \in TraceIdx :
                 /\ g_trace[i].ev # "init_group"
                 /\ g_trace[i].ev = "save" => g_trace[i].n # 0
                 /\ g_trace[i].ev = "load" =>
                       /\ i = 2
                       /\ g_trace[i].n = E
                       /\ g_trace[1].ev = "snapshot_init"
                 /\ g_trace[i].ev = "epoch_group" =>
                       /\ i > 2
                       /\ g_trace[2].ev = "load"
           /\ Len(Loads) <= 1
           /\ Epochs # << >> => Epochs[1].n = E + 1
           /\ Saves # << >> => Saves[1].n = E + 1

C3_Witness ==
    /\ pc = "done" /\ ~from_scratch /\ has_snapshot
    /\ resume_from_epoch = Some(0)
    /\ Len(Loads) = 1 /\ Epochs # << >> /\ Saves # << >>

\* the values init_group creates on node n
InitBlobs(n) == {init_group[i].blob : i \in {j \in 1..Len(init_group) : init_group[j].node = n}}

C5_SaveBeforeNextEpoch ==
    (Running /\ has_snapshot) =>
        /\ \A i \in TraceIdx :
              g_trace[i].ev = "epoch_group" =>
                  LET k == g_trace[i].n
                  IN /\ i + 1 <= Len(g_trace) =>
                           \/ g_trace[i + 1].ev = "raise"
                           \/ g_trace[i + 1].ev = "fetch" /\ g_trace[i + 1].n = k
                     /\ i + 2 <= Len(g_trace) =>
                           \/ g_trace[i + 2].ev = "raise"
                           \/ g_trace[i + 2].ev = "save" /\ g_trace[i + 2].n = k
                     /\ i + 3 <= Len(g_trace) =>
                           \/ g_trace[i + 3].ev = "raise"
                           \/ g_trace[i + 3].ev = "epoch_group" /\ g_trace[i + 3].n = k + 1
                           \/ g_trace[i + 3].ev = "exit_group" /\ g_trace[i + 3].n = k
        /\ \A i \in TraceIdx :
              g_trace[i].ev = "exit_group" =>
                  /\ i > 3
                  /\ g_trace[i - 1].ev = "save" /\ g_trace[i - 1].n = g_trace[i].n
                  /\ g_trace[i - 3].ev = "epoch_group" /\ g_trace[i - 3].n = g_trace[i].n
        /\ pc = "exit_group" =>
              /\ LastEv = "save"
              /\ g_trace[Len(g_trace)].n = epoch
              /\ EpochKeys(epoch) # {}
              /\ EpochKeys(epoch) \subseteq DOMAIN store

C5_Witness ==
    /\ pc = "exit_group" /\ has_snapshot /\ epoch = 2
    /\ LastEv = "save" /\ Len(Epochs) = 2

\* C6: the stop signals are resolved right after every epoch_group execution
\* and at no other time, all of them and to the values the epoch produced;
\* an epoch other than the first of the run is run only if no stop signal was
\* true at the end of the epoch before it, and the loop is left only if some
\* stop signal was true at the end of the latest epoch.
C6_StopSignals ==
    Running =>
        /\ \A i \in TraceIdx :
              /\ g_trace[i].ev = "fetch" =>
                    /\ i > 1
                    /\ g_trace[i - 1].ev = "epoch_group"
                    /\ g_trace[i - 1].n = g_trace[i].n
                    /\ Len(g_trace[i].data) = Len(stop_signals)
                    /\ g_trace[i].data = g_trace[i - 1].data
              /\ (g_trace[i].ev = "epoch_group" /\ i < Len(g_trace)) =>
                    g_trace[i + 1].ev \in {"fetch", "raise"}
              /\ (g_trace[i].ev = "exit_group" \/ (g_trace[i].ev = "save" /\ g_trace[i].n > 0)) =>
                    \E j \in 1..(i - 1) :
                        g_trace[j].ev = "fetch" /\ g_trace[j].n = g_trace[i].n
        /\ \A i \in 1..Len(Epochs) :
              /\ i > 1 => ~any(Epochs[i - 1].data)
              /\ i > 1 => Epochs[i].n = Epochs[i - 1].n + 1
        /\ pc \in {"exit_group", "done"} =>
              /\ Epochs # << >>
              /\ any(Epochs[Len(Epochs)].data)
              /\ Epochs[Len(Epochs)].n = epoch

C6_Witness ==
    /\ pc = "done" /\ Len(stop_signals) = 2
    /\ stop_values = <<TRUE, FALSE>> /\ epoch = 2

\* the managers there are, the single one and the per-node ones
Managers ==
    {mgr} \cup (IF node_managers = None THEN {}
                ELSE {node_managers[1][i].manager : i \in 1..Len(node_managers[1])})

\* C7: once MultiNodeSnapshotManager.init has been called, the recorded node
\* list is the list of the first call, in every state; a later call leaves
\* the recorded nodes and the per-node managers as they are, returns nothing
\* when its list is the recorded list and fails when it is another list.
C7_SecondInit ==
    /\ [](node_managers # None =>
            /\ g_first_nodes # None
            /\ RecordedNodes(node_managers[1]) = g_first_nodes[1])
    /\ [][/\ (g_call' # g_call /\ g_call'.before # None) =>
                /\ node_managers' = node_managers
                /\ g_call'.outcome =
                      IF g_call'.nodes = RecordedNodes(node_managers[1])
                      THEN "none" ELSE "raise"
          /\ (pc = "snap_init" /\ snapshot = "multi" /\ node_managers # None) =>
                /\ node_managers' = node_managers
                /\ pc' = "snap_init_run" => pending' = None
                /\ (pc' = "failed") <=>
                      (used_nodes(init_group) # RecordedNodes(node_managers[1]))
         ]_vars

C7_Witness ==
    /\ g_call.count = 2 /\ g_call.before # None
    /\ g_call.outcome = "raise"
    /\ g_call.nodes = <<"local", "b">>
    /\ node_managers # None
    /\ RecordedNodes(node_managers[1]) = <<"local", "a">>

\* C8: for every manager whose init task has not been executed, whether init
\* was never called or was called and its task has not run, blob_list(),
\* save(e) and load(e) fail: none of them yields a list or a task.
C8_BlobListPrecondition ==
    \A m \in Managers :
        m.db \notin g_executed =>
            /\ ~blob_list(m).ok
            /\ \A e \in 0..MaxEpoch, n \in Nodes :
                  /\ ~SM_save(m, e, n).ok
                  /\ ~SM_load(m, e, n).ok

C8_Witness ==
    /\ pc = "save0" /\ snapshot = "multi" /\ node_managers # None
    /\ \E i \in 1..Len(node_managers[1]) :
          /\ node_managers[1][i].manager.names_output # None
          /\ node_managers[1][i].manager.db \notin g_executed

\* C9: a raise is the last thing a run does: nothing is executed after it,
\* no call is made twice, the run is then over, and only a new runner
\* follows; save(k) for k > 0 is executed only after epoch k was; exit_group
\* is executed only when the stop check of the latest epoch succeeded.
C9_FailureIsFatal ==
    /\ [](Running =>
            /\ \A i \in TraceIdx :
                  /\ g_trace[i].ev = "raise" => i = Len(g_trace)
                  /\ (g_trace[i].ev = "save" /\ g_trace[i].n > 0) =>
                        \E j \in 1..(i - 1) :
                            g_trace[j].ev = "epoch_group" /\ g_trace[j].n = g_trace[i].n
                  /\ g_trace[i].ev = "exit_group" =>
                        /\ i = Len(g_trace)
                        /\ pc = "done"
                        /\ any(stop_values)
                  /\ \A j \in TraceIdx :
                        (j # i /\ g_trace[j].ev = g_trace[i].ev) => g_trace[j].n # g_trace[i].n
            /\ (pc = "failed") <=> (LastEv = "raise"))
    /\ [][pc = "failed" => (pc' # "failed" => g_runs' = g_runs + 1 /\ g_trace' = << >>)]_vars

C9_Witness ==
    /\ pc = "failed" /\ has_snapshot /\ LastEv = "raise"
    /\ Len(Epochs) = 2 /\ Len(Saves) = 2 /\ epoch = 2
    /\ EpochKeys(2) # {}
    /\ \A k \in EpochKeys(2) : k \notin DOMAIN store

\* C10: every save and load task of a run uses the name list that the
\* execution of its manager's init task produced (data holds one list per
\* task, g_names one per manager), and these lists do not change while the
\* run goes on, whatever values the epochs create.
C10_StableNames ==
    /\ []((Running /\ has_snapshot) =>
            \A i \in TraceIdx :
                (g_trace[i].ev \in {"save", "load"} /\ g_trace[i].data # << >>) =>
                    /\ g_names # None
                    /\ g_trace[i].data = g_names[1])
    /\ [][(g_runs' = g_runs /\ pc \notin {"build", "snap_init", "snap_init_run"}) =>
             /\ g_names' = g_names
             /\ HeldNames' = HeldNames]_vars

C10_Witness ==
    /\ snapshot = "single" /\ from_scratch /\ g_runs = 1
    /\ LastEv = "save" /\ epoch = 2
    /\ TmpBlob \in DOMAIN ws[DefaultNode]
    /\ TmpBlob \notin Range(g_trace[Len(g_trace)].data[1])

\* ------------------------------------------- checkpoint keys on their own
\* most key-building calls made on the manager in one behaviour of KeySpec
MaxKeyCalls == 2

\* the epochs the key-building calls are made with
KeyEpochs == {0, 3, 9, 10, 99999, 100000, 999999, 1000000}
\* the db of the manager: that of a single manager and that of a per-node one
KeyDbs == {DbPrefix, NodeDb("a")}

\* a SnapshotManager whose init task has been executed in an empty workspace
KeyManager(db) ==
    [db |-> db,
     names_output |-> Some([resolved |-> TRUE, node |-> DefaultNode, value |-> <<BlobNames>>])]

KeyInit ==
    /\ init_group = << >>
    /\ epoch_group = << >>
    /\ exit_group = << >>
    /\ stop_signals = << >>
    /\ pc = "keys"
    /\ resume_from_epoch = None
    /\ snapshot = "single"
    /\ epoch = 0
    /\ stop_values = << >>
    /\ pending = None
    /\ \E db \in KeyDbs : mgr = KeyManager(db)
    /\ node_managers = None
    /\ ws = [EmptyWs EXCEPT ![DefaultNode] = Put(EmptyMap, BlobNames, <<BlobNames>>)]
    /\ outvals = EmptyMap
    /\ store = EmptyMap
    /\ g_trace = << >>
    /\ g_runs = 0
    /\ g_hist = EmptyMap
    /\ g_ref = None
    /\ g_call = [count |-> 0, nodes |-> << >>, before |-> None, outcome |-> "none"]
    /\ g_first_nodes = None
    /\ g_names = None
    /\ g_executed = {mgr.db}

\* what a key-building call leaves alone
KeyUnchanged ==
    UNCHANGED <<jobVars, runnerVars, node_managers, engineVars, g_runs, g_hist, g_ref,
                g_call, g_first_nodes, g_names>>

\* manager.save(e): the task built addresses a key
KeySave(e) ==
    /\ pc = "keys"
    /\ Len(g_trace) < MaxKeyCalls
    /\ LET r == SM_save(mgr, e, DefaultNode)
       IN /\ r.ok
          /\ mgr' = r.mgr
          /\ g_trace' = Append(g_trace, Ev("save", e, r.task.key))
    /\ g_executed' = g_executed
    /\ KeyUnchanged

\* manager.load(e)
KeyLoad(e) ==
    /\ pc = "keys"
    /\ Len(g_trace) < MaxKeyCalls
    /\ LET r == SM_load(mgr, e, DefaultNode)
       IN /\ r.ok
          /\ mgr' = r.mgr
          /\ g_trace' = Append(g_trace, Ev("load", e, r.task.key))
    /\ g_executed' = g_executed
    /\ KeyUnchanged

\* manager.init(retrieve_from_epoch=e): the names output is a new, unresolved one
KeyInitCall(e) ==
    /\ pc = "keys"
    /\ Len(g_trace) < MaxKeyCalls
    /\ LET r == SM_init(mgr, None, Some(e), DefaultNode)
       IN /\ r.ok
          /\ mgr' = r.mgr
          /\ g_trace' = Append(g_trace, Ev("init", e, r.task.key[1]))
    /\ g_executed' = g_executed \ {mgr.db}
    /\ KeyUnchanged

KeyNext ==
    \/ \E e \in KeyEpochs : KeySave(e)
    \/ \E e \in KeyEpochs : KeyLoad(e)
    \/ \E e \in KeyEpochs : KeyInitCall(e)

KeySpec == KeyInit /\ [][KeyNext]_vars

\* the number a list of decimal digits denotes
DigitValue(c) == (CHOOSE d \in 1..10 : DigitChars[d] = c) - 1
RECURSIVE ParseDecimal(_)
ParseDecimal(s) ==
    IF s = << >> THEN 0
    ELSE 10 * ParseDecimal(SubSeq(s, 1, Len(s) - 1)) + DigitValue(s[Len(s)])

\* the part of a key after the manager's prefix and the dot
KeyDigits(k) == SubSeq(k, Len(mgr.db) + 2, Len(k))

\* C11 as stated: every key is the prefix, a dot and the epoch in decimal in
\* exactly six digits; the calls for one epoch address one key and the calls
\* for distinct epochs distinct keys.
C11_FixedWidth ==
    /\ \A i \in TraceIdx :
          LET k == g_trace[i].data
              d == KeyDigits(k)
          IN /\ k = mgr.db \o <<".">> \o d
             /\ Len(d) = 6
             /\ \A j \in 1..Len(d) : d[j] \in Range(DigitChars)
             /\ ParseDecimal(d) = g_trace[i].n
    /\ \A i, j \in TraceIdx :
          (g_trace[i].n = g_trace[j].n) <=> (g_trace[i].data = g_trace[j].data)

\* C11: the key built for epoch n is the manager's prefix, a dot and n in
\* decimal, padded with zeros on the left to six digits: exactly six digits
\* while n < 1000000, and the digits of n with no leading zero from there on;
\* save(3) with prefix "run" addresses "run.000003"; save(n), load(n) and
\* init(retrieve_from_epoch=n) of one manager address the same key, and calls
\* for distinct epochs address distinct keys.
C11_KeyFormat ==
    /\ \A i \in TraceIdx :
          LET k == g_trace[i].data
              n == g_trace[i].n
              d == KeyDigits(k)
          IN /\ Len(k) >= Len(mgr.db) + 1 + 6
             /\ SubSeq(k, 1, Len(mgr.db)) = mgr.db
             /\ k[Len(mgr.db) + 1] = "."
             /\ \A j \in 1..Len(d) : d[j] \in Range(DigitChars)
             /\ ParseDecimal(d) = n
             /\ n < 1000000 => Len(d) = 6
             /\ Len(d) > 6 => d[1] # "0"
             /\ (n = 3 /\ mgr.db = <<"run">>) =>
                   k = <<"run", ".", "0", "0", "0", "0", "0", "3">>
    /\ \A i, j \in TraceIdx :
          (g_trace[i].n = g_trace[j].n) <=> (g_trace[i].data = g_trace[j].data)

C11_Witness ==
    /\ pc = "keys" /\ Len(g_trace) = 2
    /\ g_trace[1].ev = "save" /\ g_trace[1].n = 1000000
    /\ g_trace[2].ev = "init" /\ g_trace[2].n = 1000000
    /\ Len(KeyDigits(g_trace[1].data)) = 7

\* --------------------------------------------- the building of a job alone
\* most client calls of Job.add_stop_signal in one behaviour of JobSpec
MaxAdds == 2

\* what a client passes to add_stop_signal: a core.BlobReference, a TaskOutput
\* (that of the first epoch_limiter's task when there is one on that node,
\* else that of a task of no group of the job), or neither
StopSignalInputs ==
    {[kind |-> "blob", blob |-> b] : b \in {FinishedBlob(1), WBlob}}
    \cup {[kind |-> "output", output |-> [blob |-> FinishedBlob(1), node |-> n]] : n \in Nodes}
    \cup {[kind |-> "other"]}

\* isinstance(output, core.BlobReference)
IsBlobReference(x) == x.kind = "blob"
\* isinstance(output, TaskOutput)
IsTaskOutput(x) == x.kind = "output"

\* Task(outputs=[output], group=self.epoch_group), built with Node scope n
\* open as the id-th task of the group
OutputTask(x, n, id) == [type |-> "outputs", node |-> n, outputs |-> <<x.blob>>, id |-> id]
\* t.outputs()[0]
FirstOutput(t) == [blob |-> t.outputs[1], node |-> t.node, task |-> t.id]

\* (variant: no assert, whatever is passed is appended)
Job_add_stop_signalUnchecked(eg, signals, x, n) ==
    IF IsBlobReference(x)
    THEN LET t == OutputTask(x, n, Len(eg) + 1)
         IN [ok |-> TRUE, epoch_group |-> Append(eg, t),
             stop_signals |-> add_stop_signal(signals, FirstOutput(t))]
    ELSE [ok |-> TRUE, epoch_group |-> eg,
          stop_signals |-> add_stop_signal(signals, IF IsTaskOutput(x) THEN x.output ELSE x)]

\* Job.add_stop_signal(output), called with Node scope n open, on a job whose
\* epoch_group is eg and whose stop_signals is signals
Job_add_stop_signal(eg, signals, x, n) ==
    IF IsBlobReference(x)
    THEN LET t == OutputTask(x, n, Len(eg) + 1)
         IN [ok |-> TRUE, epoch_group |-> Append(eg, t),
             stop_signals |-> add_stop_signal(signals, FirstOutput(t))]
    ELSE IF IsTaskOutput(x)
    THEN [ok |-> TRUE, epoch_group |-> eg, stop_signals |-> add_stop_signal(signals, x.output)]
    ELSE [ok |-> FALSE, epoch_group |-> eg, stop_signals |-> signals]

\* the add_stop_signal calls a client has made
AddCalls == {i \in TraceIdx : g_trace[i].ev = "add_stop_signal"}

\* a client calls Job.current().add_stop_signal(x) with Node scope n open; the
\* event holds the place the output took in stop_signals, 0 when the call failed
AddStopSignal(x, n) ==
    /\ pc = "build"
    /\ Cardinality(AddCalls) < MaxAdds
    /\ LET r == Job_add_stop_signal(epoch_group, stop_signals, x, n)
       IN /\ epoch_group' = r.epoch_group
          /\ stop_signals' = r.stop_signals
          /\ g_trace' = Append(g_trace,
                Ev("add_stop_signal", IF r.ok THEN Len(r.stop_signals) ELSE 0,
                   [x |-> x, node |-> n]))
    /\ UNCHANGED <<init_group, exit_group, runnerVars, mgrVars, engineVars,
                   g_runs, g_hist, g_ref, g_call, g_first_nodes, g_names, g_executed>>

JobNext ==
    \/ \E n \in JobNodes : BuildTrainer(n)
    \/ \E num_epochs \in 1..MaxN, n \in JobNodes : EpochLimiter(num_epochs, n)
    \/ \E x \in StopSignalInputs, n \in JobNodes : AddStopSignal(x, n)

JobSpec == Init /\ [][JobNext]_vars

\* C12: a call of add_stop_signal with a raw value reference adds one task
\* with that one output at the end of epoch_group and appends that task's
\* output to stop_signals; with a task output it appends the output as it is
\* and adds no task; with anything else it fails and leaves the three groups
\* and stop_signals as they were.  No step removes or reorders stop signals,
\* so the outputs of the accepted calls stand in stop_signals in call order.
C12_AddStopSignal ==
    /\ [][g_trace' # g_trace =>
            LET c == g_trace'[Len(g_trace')]
                x == c.data.x
            IN /\ init_group' = init_group
               /\ exit_group' = exit_group
               /\ x.kind = "blob" =>
                     /\ Len(epoch_group') = Len(epoch_group) + 1
                     /\ SubSeq(epoch_group', 1, Len(epoch_group)) = epoch_group
                     /\ epoch_group'[Len(epoch_group')].outputs = <<x.blob>>
                     /\ epoch_group'[Len(epoch_group')].node = c.data.node
                     /\ stop_signals' =
                           Append(stop_signals,
                                  [blob |-> x.blob, node |-> c.data.node,
                                   task |-> Len(epoch_group')])
                     /\ c.n = Len(stop_signals')
               /\ x.kind = "output" =>
                     /\ epoch_group' = epoch_group
                     /\ stop_signals' = Append(stop_signals, x.output)
                     /\ c.n = Len(stop_signals')
               /\ x.kind \notin {"blob", "output"} =>
                     /\ epoch_group' = epoch_group
                     /\ stop_signals' = stop_signals
                     /\ c.n = 0
         ]_vars
    /\ [][/\ Len(stop_signals') >= Len(stop_signals)
          /\ SubSeq(stop_signals', 1, Len(stop_signals)) = stop_signals]_vars
    /\ [](pc = "build" =>
            /\ \A i \in AddCalls :
                  g_trace[i].n > 0 =>
                      /\ g_trace[i].n <= Len(stop_signals)
                      /\ g_trace[i].data.x.kind = "output" =>
                            stop_signals[g_trace[i].n] = g_trace[i].data.x.output
                      /\ g_trace[i].data.x.kind = "blob" =>
                            /\ stop_signals[g_trace[i].n].blob = g_trace[i].data.x.blob
                            /\ stop_signals[g_trace[i].n].node = g_trace[i].data.node
                      /\ \A j \in AddCalls :
                            (i < j /\ g_trace[j].n > 0) => g_trace[i].n < g_trace[j].n
            /\ Len(stop_signals) =
                  NumLimiters + Cardinality({i \in AddCalls : g_trace[i].n > 0}))

C12_Witness ==
    /\ pc = "build" /\ Len(g_trace) = 2 /\ NumLimiters = 1
    /\ g_trace[1].n = 0 /\ g_trace[1].data.x.kind = "other"
    /\ g_trace[2].n = 2 /\ g_trace[2].data.x.kind = "blob"
    /\ Len(stop_signals) = 2 /\ Len(epoch_group) = 2

\* ------------------------------------------------- properties, continued
\* the managers the runner saves and loads with, in order
RunnerManagers ==
    IF snapshot = "single" THEN <<mgr>>
    ELSE IF node_managers = None THEN << >>
    ELSE [i \in 1..Len(node_managers[1]) |-> node_managers[1][i].manager]

\* the nodes their tasks run on
RunnerNodes ==
    IF snapshot = "single" THEN <<DefaultNode>>
    ELSE IF node_managers = None THEN << >>
    ELSE RecordedNodes(node_managers[1])

\* this run has executed the init task of its managers
InitTaskExecuted ==
    \E i \in TraceIdx : g_trace[i].ev = "snapshot_init" /\ g_trace[i].n > 0

\* C13: every checkpoint holds the name list, and the list names exactly
\* the values of the checkpoint; the checkpoint a save of the current run
\* wrote holds the list that save used; and in a run resumed from E whose
\* managers' init task has been executed, blob_list() of every manager is the
\* list held by that manager's checkpoint E, and so is the list of every
\* save of the run: the checkpoints a resumed run writes carry the list of
\* the checkpoint it resumed from.
C13_NamesPersisted ==
    /\ \A k \in DOMAIN store :
          /\ BlobNames \in DOMAIN store[k]
          /\ Range(store[k][BlobNames]) = DOMAIN store[k]
    /\ (Running /\ has_snapshot) =>
          \A i \in TraceIdx :
              (g_trace[i].ev = "save" /\ g_trace[i].data # << >>) =>
                  /\ Len(g_trace[i].data) = Len(RunnerManagers)
                  /\ \A j \in 1..Len(RunnerManagers) :
                        LET k == dbname(RunnerManagers[j].db, g_trace[i].n)
                        IN /\ k \in DOMAIN store
                           /\ store[k][BlobNames] = g_trace[i].data[j]
    /\ (Running /\ has_snapshot /\ ~from_scratch /\ InitTaskExecuted) =>
          LET E == resume_from_epoch[1]
          IN \A j \in 1..Len(RunnerManagers) :
                LET m == RunnerManagers[j]
                    k == dbname(m.db, E)
                IN /\ k \in DOMAIN store
                   /\ blob_list(m).ok
                   /\ blob_list(m).value = store[k][BlobNames]
                   /\ \A i \in TraceIdx :
                         g_trace[i].ev \in {"save", "load"} =>
                             g_trace[i].data[j] = store[k][BlobNames]

C13_Witness ==
    /\ pc = "done" /\ ~from_scratch /\ snapshot = "multi" /\ InitTaskExecuted
    /\ Len(RunnerManagers) = 2 /\ resume_from_epoch = Some(1)
    /\ HasTrainer /\ Len(Saves) = 2
    /\ TmpBlob \in DOMAIN ws["a"]
    /\ TmpBlob \notin Range(blob_list(RunnerManagers[2]).value)

\* the phase of __call__ an entry of the trace belongs to
PhaseRank(x) ==
    CASE x.ev = "init_group" -> 0
      [] x.ev = "snapshot_init" -> 1
      [] x.ev = "load" -> 2
      [] x.ev = "save" /\ x.n = 0 -> 2
      [] x.ev \in {"epoch_group", "fetch", "save"} -> 3
      [] x.ev = "exit_group" -> 4
      [] OTHER -> 5

Count(ev) == Cardinality({i \in TraceIdx : g_trace[i].ev = ev})

\* C14: in every run the executor calls come in program order (init_group,
\* the snapshot init, save(0) or load, the epochs with their saves,
\* exit_group); init_group is executed at most once, in a fresh run as the
\* first call and in a resumed run never; exit_group is executed at most
\* once, only as the last call of the run, exactly once in a run that
\* returns, and a run that has executed it has returned.
C14_PhaseOrder ==
    Running =>
        /\ \A i, j \in TraceIdx : i < j => PhaseRank(g_trace[i]) <= PhaseRank(g_trace[j])
        /\ Count("init_group") <= 1
        /\ Count("exit_group") <= 1
        /\ from_scratch =>
              /\ \A i \in TraceIdx : g_trace[i].ev = "init_group" => i = 1
              /\ (g_trace # << >> /\ g_trace[1].ev # "raise") => g_trace[1].ev = "init_group"
              /\ pc \notin {"init_group", "failed"} => Count("init_group") = 1
        /\ ~from_scratch => Count("init_group") = 0
        /\ \A i \in TraceIdx : g_trace[i].ev = "exit_group" => i = Len(g_trace) /\ pc = "done"
        /\ pc = "done" => LastEv = "exit_group"
        /\ pc \notin {"done", "failed"} => Count("exit_group") = 0 /\ Count("raise") = 0

C14_Witness ==
    /\ pc = "done" /\ from_scratch /\ snapshot = "multi"
    /\ Count("init_group") = 1 /\ Count("exit_group") = 1
    /\ Len(Epochs) = 2 /\ Len(g_trace) = 10

\* C15: a call of MultiNodeSnapshotManager.init made after the first one
\* returns nothing whenever the set of nodes passed is the recorded set of
\* nodes, in whatever order, and fails only when the sets differ.
C15_SameSetIsNoOp ==
    (g_call.count > 0 /\ g_call.before # None) =>
        LET same == Range(g_call.nodes) = Range(RecordedNodes(g_call.before[1]))
        IN /\ same => g_call.outcome = "none"
           /\ ~same => g_call.outcome = "raise"

\* C16: when the first call of MultiNodeSnapshotManager.init has built its
\* task group for nodes n1..nm, there is one manager per node in the given
\* order, and the i-th task of the group is the init task of the manager of
\* ni, built in the node scope of ni and invoked with the node list <<ni>>.
C16_PerNodeInit ==
    (pc = "snap_init_run" /\ snapshot = "multi" /\ pending # None) =>
        LET nodes == used_nodes(init_group)
        IN /\ Len(node_managers[1]) = Len(nodes)
           /\ Len(pending[1]) = Len(nodes)
           /\ \A i \in 1..Len(nodes) :
                 /\ node_managers[1][i].node = nodes[i]
                 /\ node_managers[1][i].manager.db = NodeDb(nodes[i])
                 /\ pending[1][i].g_owner = NodeDb(nodes[i])
                 /\ pending[1][i].node = nodes[i]
                 /\ pending[1][i].nodes = Some(<<nodes[i]>>)

\* __call__ is sequential: when the stop signals of an epoch have been looked
\* at the run goes on, and the call of exit_group returns or raises
LiveSpec == Spec /\ WF_vars(CheckStop) /\ WF_vars(RunExitGroup)

\* C17: a run is at exit_group or has returned only if the job has a stop
\* signal, some stop signal was true at the end of the latest epoch and no
\* call of the run has failed; a job with no stop signal never gets to
\* exit_group; the loop is left only from the stop check and only when a
\* resolved stop signal is true; the save between the resolution of the
\* signals and the stop check keeps the resolved values and ends at the stop
\* check unless it fails; and once the stop check is reached with a true stop
\* signal the run ends, by returning unless exit_group fails.
C17_Termination ==
    /\ [](Running =>
            /\ pc \in {"exit_group", "done"} =>
                  /\ stop_signals # << >>
                  /\ any(stop_values)
                  /\ Epochs # << >> /\ any(Epochs[Len(Epochs)].data)
                  /\ Count("raise") = 0
            /\ stop_signals = << >> =>
                  /\ pc \notin {"exit_group", "done"}
                  /\ Count("exit_group") = 0)
    /\ [][/\ pc' = "exit_group" => (pc = "check" /\ any(stop_values))
          /\ (pc = "check" /\ ~any(stop_values)) => pc' \notin {"exit_group", "done"}
          /\ pc = "save" => (pc' \in {"check", "failed"} /\ stop_values' = stop_values)
         ]_vars
    /\ ((pc = "check" /\ any(stop_values)) ~> (pc \in {"done", "failed"}))

C17_Witness ==
    /\ pc = "check" /\ stop_signals = << >> /\ HasTrainer
    /\ epoch = MaxEpoch /\ Len(Epochs) = MaxEpoch /\ Count("raise") = 0

\* C18: in every run, whatever the manager and whatever resume_from_epoch,
\* an execution of epoch_group comes after an execution of init_group or of
\* load(resume_from_epoch) in the same run.
C18_InitOrLoadFirst ==
    Running =>
        \A i \in TraceIdx :
            g_trace[i].ev = "epoch_group" =>
                \E j \in 1..(i - 1) :
                    \/ g_trace[j].ev = "init_group"
                    \/ /\ g_trace[j].ev = "load"
                       /\ ~from_scratch
                       /\ g_trace[j].n = resume_from_epoch[1]

\* the run resumes from the checkpoint at which the completed fresh run of
\* this epoch_limiter(N) job returned
TerminalResume ==
    /\ Running /\ ~from_scratch /\ has_snapshot /\ SoleLimiter
    /\ g_ref # None
    /\ g_ref[1].ret = LimiterN
    /\ resume_from_epoch = Some(LimiterN)

\* C19: in every run the stop signals are resolved only after an epoch of
\* that run has been executed, and a run at exit_group has executed an epoch;
\* a run resumed from the terminal checkpoint N of a finished epoch_limiter(N)
\* job executes epoch N + 1 and no other, finds its stop signal true, writes
\* checkpoint N + 1, executes exit_group and returns N + 1.
C19_ResumeAfterEnd ==
    /\ Running =>
          /\ \A i \in TraceIdx :
                g_trace[i].ev = "fetch" =>
                    \E j \in 1..(i - 1) : g_trace[j].ev = "epoch_group"
          /\ pc \in {"exit_group", "done"} => Epochs # << >>
    /\ TerminalResume =>
          LET N == LimiterN
          IN /\ Len(Epochs) <= 1
             /\ \A i \in 1..Len(Epochs) : Epochs[i].n = N + 1
             /\ \A i \in 1..Len(Saves) : Saves[i].n = N + 1
             /\ pc \in {"save", "check"} => any(stop_values) /\ epoch = N + 1
             /\ pc \in {"exit_group", "done"} =>
                   /\ epoch = N + 1
                   /\ Len(Epochs) = 1
                   /\ Len(Saves) = 1
                   /\ EpochKeys(N + 1) # {}
                   /\ EpochKeys(N + 1) \subseteq DOMAIN store
             /\ pc = "done" => LastEv = "exit_group"

C19_Witness ==
    /\ TerminalResume /\ pc = "done" /\ LimiterN = MaxN
    /\ epoch = MaxN + 1 /\ HasTrainer
    /\ dbname(DbPrefix, MaxN + 1) \in DOMAIN store

\* C20: in every run of a job whose init_group has tasks, with a snapshot
\* manager that only runners have initialised, what the executor is handed after
\* snapshot.init is a task group with at least one task, and the name lists
\* of the saves and loads that follow are those of this run: in a resumed
\* run the lists held by the checkpoints of resume_from_epoch, in a fresh run
\* the names of the values alive when this run's init task was executed.
C20_ActualInitTask ==
    (Running /\ has_snapshot /\ g_call.count = 0 /\ init_group # << >>) =>
        /\ pc = "snap_init_run" => (pending # None /\ pending[1] # << >>)
        /\ \A i \in TraceIdx :
              /\ g_trace[i].ev = "snapshot_init" => g_trace[i].n > 0
              /\ g_trace[i].ev \in {"save", "load"} =>
                    \A j \in 1..Len(RunnerManagers) :
                        IF from_scratch
                        THEN 0 \in DOMAIN g_hist =>
                                Range(g_trace[i].data[j]) =
                                    DOMAIN g_hist[0][RunnerNodes[j]]
                        ELSE g_trace[i].data[j] =
                                store[dbname(RunnerManagers[j].db, resume_from_epoch[1])][BlobNames]

====
